---- MODULE Spec2Model ----
(***************************************************************************)
(* A model of scimap.tools.spatial_interaction: the per-image pipeline     *)
(* (neighbour graph, phenotype mapping, permutation trials, observed       *)
(* frequencies, scaling, p-values) and the merge of the per-image tables.  *)
(*                                                                         *)
(* Numbers are exact rationals <<n, d>> with d > 0 in lowest terms,        *)
(* extended with the IEEE specials the code can produce:                   *)
(*   <<0, 0>> is not-a-number, <<1, 0>> is +inf, <<-1, 0>> is -inf.        *)
(* Cell indices run from 1 (the code's index i is the model's i + 1).      *)
(***************************************************************************)
EXTENDS Integers, Sequences, FiniteSets, TLC

(* ------------------------------------------------------------------ *)
(* Bounds of the model                                                 *)
(* ------------------------------------------------------------------ *)
MaxPermutation == 2
MaxWorkers == 2
MaxImages == 2

(* ------------------------------------------------------------------ *)
(* Extended rational arithmetic (numpy / pandas float semantics)       *)
(* ------------------------------------------------------------------ *)
Abs(i) == IF i < 0 THEN -i ELSE i

Sign(i) == IF i < 0 THEN -1 ELSE IF i > 0 THEN 1 ELSE 0

RECURSIVE Gcd(_, _)
Gcd(a, b) == IF b = 0 THEN a ELSE Gcd(b, a % b)

NaN == <<0, 0>>
PosInf == <<1, 0>>
NegInf == <<-1, 0>>

IsNaN(v) == v = NaN
IsInf(v) == v[2] = 0 /\ v[1] # 0
IsFinite(v) == v[2] > 0

\* the value n/d under IEEE rules: x/0 is +-inf, 0/0 is not-a-number
Q(n, d) ==
    IF d = 0 THEN <<Sign(n), 0>>
    ELSE LET g == Gcd(Abs(n), Abs(d))
             s == IF d < 0 THEN -1 ELSE 1
         IN  <<(s * n) \div g, (s * d) \div g>>

Zero == <<0, 1>>
One == <<1, 1>>
FromInt(i) == <<i, 1>>

QAdd(a, b) ==
    IF IsNaN(a) \/ IsNaN(b) THEN NaN
    ELSE IF IsInf(a) /\ IsInf(b) THEN (IF a = b THEN a ELSE NaN)
    ELSE IF IsInf(a) THEN a
    ELSE IF IsInf(b) THEN b
    ELSE Q(a[1] * b[2] + b[1] * a[2], a[2] * b[2])

QNeg(a) == <<-a[1], a[2]>>

QSub(a, b) == QAdd(a, QNeg(b))

QMul(a, b) ==
    IF IsNaN(a) \/ IsNaN(b) THEN NaN
    ELSE IF IsInf(a) \/ IsInf(b)
         THEN (IF a[1] = 0 \/ b[1] = 0 THEN NaN ELSE <<Sign(a[1]) * Sign(b[1]), 0>>)
    ELSE Q(a[1] * b[1], a[2] * b[2])

QDiv(a, b) ==
    IF IsNaN(a) \/ IsNaN(b) THEN NaN
    ELSE IF IsInf(a) THEN (IF IsInf(b) THEN NaN
                           ELSE <<a[1] * (IF b[1] < 0 THEN -1 ELSE 1), 0>>)
    ELSE IF IsInf(b) THEN Zero
    ELSE IF b[1] = 0 THEN <<Sign(a[1]), 0>>
    ELSE Q(a[1] * b[2], a[2] * b[1])

QAbs(a) == <<Abs(a[1]), a[2]>>

\* a < b, false when either side is not-a-number
QLt(a, b) ==
    IF IsNaN(a) \/ IsNaN(b) THEN FALSE
    ELSE IF IsInf(a) \/ IsInf(b)
         THEN (IF IsInf(a) /\ IsInf(b) THEN a[1] < b[1]
               ELSE IF IsInf(a) THEN a[1] < 0
               ELSE b[1] > 0)
    ELSE a[1] * b[2] < b[1] * a[2]

\* a >= b, false when either side is not-a-number
QGe(a, b) == ~IsNaN(a) /\ ~IsNaN(b) /\ ~QLt(a, b)

\* DataFrame.fillna(0)
FillNa0(v) == IF IsNaN(v) THEN Zero ELSE v

(* ------------------------------------------------------------------ *)
(* Sequence helpers                                                    *)
(* ------------------------------------------------------------------ *)
Range(s) == {s[i] : i \in DOMAIN s}

RECURSIVE SeqSum(_)
SeqSum(s) == IF s = <<>> THEN Zero ELSE QAdd(Head(s), SeqSum(Tail(s)))

RECURSIVE SeqMin(_)
SeqMin(s) ==
    IF Len(s) = 1 THEN s[1]
    ELSE LET m == SeqMin(Tail(s)) IN IF QLt(s[1], m) THEN s[1] ELSE m

RECURSIVE SeqMax(_)
SeqMax(s) ==
    IF Len(s) = 1 THEN s[1]
    ELSE LET m == SeqMax(Tail(s)) IN IF QLt(m, s[1]) THEN s[1] ELSE m

RECURSIVE Flatten(_)
Flatten(ss) == IF ss = <<>> THEN <<>> ELSE Head(ss) \o Flatten(Tail(ss))

\* the elements of a finite set of integers in ascending order
RECURSIVE SortedInts(_)
SortedInts(S) ==
    IF S = {} THEN <<>>
    ELSE LET m == CHOOSE x \in S : \A y \in S : x <= y
         IN  <<m>> \o SortedInts(S \ {m})

(* ------------------------------------------------------------------ *)
(* Inputs: phenotypes, images, options                                 *)
(* ------------------------------------------------------------------ *)
\* the phenotype labels in their sort order (the order of the categories)
PhenotypeOrder == <<"A", "B">>

Phenotypes == Range(PhenotypeOrder)

PhRank(p) == CHOOSE i \in DOMAIN PhenotypeOrder : PhenotypeOrder[i] = p

\* a set of phenotypes as a sorted sequence
SortedPh(S) == LET r == SortedInts({PhRank(p) : p \in S})
               IN  [i \in DOMAIN r |-> PhenotypeOrder[r[i]]]

\* Coordinates are integers in half units: a grid of spacing 1 has spacing 2
\* here and radius = 1.5 is 3.
GridLayout == << <<0, 0>>, <<2, 0>>, <<0, 2>>, <<2, 2>> >>

\* three cells of the grid and one cell far from all of them
FarLayout == << <<0, 0>>, <<2, 0>>, <<0, 2>>, <<9, 9>> >>

\* two cells with identical coordinates and a third one
DupLayout == << <<0, 0>>, <<0, 0>>, <<2, 0>> >>

Layouts == {GridLayout, FarLayout, DupLayout}

\* the per-cell table of one image: x, y and phenotype of every cell; the
\* labellings are taken up to renaming, the first cell has the first phenotype
TablesOf(layout) ==
    { [i \in DOMAIN layout |-> [x |-> layout[i][1], y |-> layout[i][2], phenotype |-> lab[i]]]
        : lab \in {l \in [DOMAIN layout -> Phenotypes] : l[1] = PhenotypeOrder[1]} }

ImageTables == UNION {TablesOf(l) : l \in Layouts}

Methods == {"knn", "radius", "delaunay", "voronoi"}
Normalizations == {"total", "conditional", "ratio"}
PvalMethods == {"abs", "zscore", "rank"}

(* ------------------------------------------------------------------ *)
(* Neighbour graph (lines 148-212)                                     *)
(* ------------------------------------------------------------------ *)
Dist2(data, i, j) ==
    (data[i].x - data[j].x) * (data[i].x - data[j].x)
  + (data[i].y - data[j].y) * (data[i].y - data[j].y)

\* BallTree.query(k): for cell i, k distinct indices in order of distance, the
\* k nearest points of the tree (the cell itself is one of the points); the
\* order among points at equal distance is the tree's and is left open.
KnnQuery(data, i, k) ==
    { q \in [1..k -> DOMAIN data] :
        /\ \A a, b \in 1..k : a < b => q[a] # q[b] /\ Dist2(data, i, q[a]) <= Dist2(data, i, q[b])
        /\ \A j \in DOMAIN data : j \notin Range(q) => Dist2(data, i, q[k]) <= Dist2(data, i, j) }

\* neighbours.drop(0, axis=1): the first column of the query result is removed
DropFirstColumn(q) == Tail(q)

\* the sequences that take their i-th element from the i-th set
RECURSIVE Product(_)
Product(sets) ==
    IF sets = <<>> THEN {<<>>}
    ELSE {<<h>> \o t : h \in Head(sets), t \in Product(Tail(sets))}

\* every way the knn branch can fill the neighbour lists
KnnNeighbours(data, k) ==
    Product([i \in DOMAIN data |-> {DropFirstColumn(q) : q \in KnnQuery(data, i, k)}])

\* BallTree.query_radius(r): the indices within distance r (inclusive), the
\* cell's own index then deleted
RadiusNeighbours(data, r) ==
    [i \in DOMAIN data |->
        SortedInts({j \in DOMAIN data : Dist2(data, i, j) <= r * r} \ {i})]

Orient(p, q, r) == (q.x - p.x) * (r.y - p.y) - (q.y - p.y) * (r.x - p.x)

\* d lies strictly inside the circle through a, b, c
InCircle(a, b, c, d) ==
    LET ax == a.x - d.x   ay == a.y - d.y
        bx == b.x - d.x   by == b.y - d.y
        cx == c.x - d.x   cy == c.y - d.y
        det == (ax * ax + ay * ay) * (bx * cy - cx * by)
             - (bx * bx + by * by) * (ax * cy - cx * ay)
             + (cx * cx + cy * cy) * (ax * by - bx * ay)
    IN  det * Orient(a, b, c) > 0

\* the triangles a Delaunay triangulation may contain: not flat, and no
\* point strictly inside the circumcircle
DelaunayCandidates(data) ==
    { t \in SUBSET (DOMAIN data) :
        /\ Cardinality(t) = 3
        /\ \E a, b, c \in t :
              /\ a < b /\ b < c
              /\ Orient(data[a], data[b], data[c]) # 0
              /\ \A d \in DOMAIN data : ~InCircle(data[a], data[b], data[c], data[d]) }

ProperCross(p, q, r, s) ==
    /\ Sign(Orient(p, q, r)) * Sign(Orient(p, q, s)) < 0
    /\ Sign(Orient(r, s, p)) * Sign(Orient(r, s, q)) < 0

Overlap(data, t, u) ==
    \/ {<<data[i].x, data[i].y>> : i \in t} = {<<data[i].x, data[i].y>> : i \in u}
    \/ \E a, b \in t : \E c, d \in u :
          a # b /\ c # d /\ ProperCross(data[a], data[b], data[c], data[d])

\* Delaunay(points).simplices: a largest family of candidates that do not
\* overlap (cocircular or duplicate points leave more than one); no family
\* when the input is degenerate, and then the construction fails
Triangulations(data) ==
    LET cand == DelaunayCandidates(data)
        ok(T) == \A t, u \in T : t # u => ~Overlap(data, t, u)
    IN  { T \in SUBSET cand :
            /\ T # {}
            /\ ok(T)
            /\ \A t \in cand \ T : ~ok(T \cup {t}) }

\* neighbours_dict: the vertices sharing a simplex with the cell
DelaunayNeighbours(data, simplices) ==
    [i \in DOMAIN data |->
        SortedInts(UNION {t \ {i} : t \in {u \in simplices : i \in u}})]

(* ------------------------------------------------------------------ *)
(* Phenotype mapping (lines 215-231)                                   *)
(* ------------------------------------------------------------------ *)
\* the rows of one cell: one per neighbour, in the order of its list
RowsOfCell(data, nb, i) ==
    [c \in DOMAIN nb[i] |->
        [index |-> i,
         phenotype |-> data[i].phenotype,
         neighbour_phenotype |-> data[nb[i][c]].phenotype]]

\* the table n: the rows of all cells, cell after cell
InteractionRows(data, nb) ==
    Flatten([i \in DOMAIN data |-> RowsOfCell(data, nb, i)])

\* the neighbour frame with the indices replaced by phenotypes, without the
\* cells that have no neighbour (dropna(how='all'))
MappedNeighbours(data, nb) ==
    [i \in {j \in DOMAIN data : nb[j] # <<>>} |->
        [c \in DOMAIN nb[i] |-> data[nb[i][c]].phenotype]]

(* ------------------------------------------------------------------ *)
(* The random generator (numpy's global generator, one per process)    *)
(* ------------------------------------------------------------------ *)
\* np.random.seed(seed): the state the generator is put in
RngSeed(seed) == seed % 65537

\* one step of the generator
RngNext(s) == (75 * s + 74) % 65537

\* np.random.randint(0, high, size): the values drawn and the state left
RECURSIVE RandInts(_, _, _)
RandInts(s, high, size) ==
    IF size = 0 THEN <<>>
    ELSE <<RngNext(s) % high>> \o RandInts(RngNext(s), high, size - 1)

\* the state after size draws
RECURSIVE RngAdvance(_, _)
RngAdvance(s, size) == IF size = 0 THEN s ELSE RngAdvance(RngNext(s), size - 1)

Swap(x, i, j) == [x EXCEPT ![i] = x[j], ![j] = x[i]]

\* np.random.permutation(x): a shuffled copy, positions Len(x) down to 2 each
\* exchanged with a drawn position at or below it
RECURSIVE Shuffle(_, _, _)
Shuffle(x, s, i) ==
    IF i <= 1 THEN x
    ELSE Shuffle(Swap(x, i, (RngNext(s) % i) + 1), RngNext(s), i - 1)

RandomPermutation(x, s) == Shuffle(x, s, Len(x))

\* data.assign(neighbour_phenotype = np.random.permutation(...)): only the
\* neighbour_phenotype column is permuted
ShuffledTable(tbl, s) ==
    LET col == RandomPermutation([i \in DOMAIN tbl |-> tbl[i].neighbour_phenotype], s)
    IN  [i \in DOMAIN tbl |-> [tbl[i] EXCEPT !.neighbour_phenotype = col[i]]]

(* ------------------------------------------------------------------ *)
(* Frequency matrices (lines 244-276 and 296-334)                      *)
(* ------------------------------------------------------------------ *)
\* the categories of the phenotype column of the image, sorted
Categories(data) == SortedPh({data[i].phenotype : i \in DOMAIN data})

\* groupby(['phenotype','neighbour_phenotype'], observed=False).size()
GroupSize(tbl, p, q) ==
    Cardinality({i \in DOMAIN tbl : tbl[i].phenotype = p /\ tbl[i].neighbour_phenotype = q})

\* the columns of the unstacked table: the neighbour phenotypes that occur
UnstackColumns(tbl) == SortedPh({tbl[i].neighbour_phenotype : i \in DOMAIN tbl})

\* k.assign(**columns_to_add): the phenotypes of the index that are no column
\* yet are appended as columns of 0
WidenedColumns(rows, cols) == cols \o SortedPh(Range(rows) \ Range(cols))

\* the (row, column) keys of a stacked matrix, row after row
StackKeys(rows, cols) ==
    Flatten([r \in DOMAIN rows |-> [c \in DOMAIN cols |-> <<rows[r], cols[c]>>]])

\* drop_duplicates(subset=['index','phenotype']).groupby('phenotype').size()
\* .reindex(k.index, fill_value=0): the cells of the table per phenotype
PermTotalCellCount(tbl, p) ==
    Cardinality({tbl[i].index : i \in {j \in DOMAIN tbl : tbl[j].phenotype = p}})

ObsTotalCellCountAll(data, p) == Len(data)

\* data['phenotype'].value_counts(): the cells of the image per phenotype
ObsTotalCellCount(data, p) ==
    Cardinality({i \in DOMAIN data : data[i].phenotype = p})

\* drop_duplicates() then groupby(...).size(): the distinct (cell, neighbour
\* phenotype) pairs per (phenotype, neighbour phenotype)
NormalizationFactor(tbl, p, q) ==
    Cardinality({tbl[i].index :
        i \in {j \in DOMAIN tbl : tbl[j].phenotype = p /\ tbl[j].neighbour_phenotype = q}})

\* the keys of the flattened vector under each normalization
FreqKeys(data, tbl, normalization) ==
    IF normalization = "total"
    THEN StackKeys(Categories(data), WidenedColumns(Categories(data), UnstackColumns(tbl)))
    ELSE StackKeys(Categories(data), UnstackColumns(tbl))

\* permutation_pval: the flattened frequencies of the shuffled table
permutation_pval(data, tbl, seedstate) ==
    LET sh   == ShuffledTable(tbl, seedstate)
        keys == FreqKeys(data, sh, "total")
    IN  [j \in DOMAIN keys |->
            FillNa0(Q(GroupSize(sh, keys[j][1], keys[j][2]),
                      PermTotalCellCount(sh, keys[j][1])))]

\* permutation_pval_norm: the same under conditional normalization
permutation_pval_norm(data, tbl, seedstate) ==
    LET sh   == ShuffledTable(tbl, seedstate)
        keys == FreqKeys(data, sh, "conditional")
    IN  [j \in DOMAIN keys |->
            FillNa0(Q(GroupSize(sh, keys[j][1], keys[j][2]),
                      NormalizationFactor(sh, keys[j][1], keys[j][2])))]

\* n_freq under total normalization, with its index
ObservedTotal(data, tbl) ==
    LET keys == FreqKeys(data, tbl, "total")
    IN  [j \in DOMAIN keys |->
            [phenotype |-> keys[j][1], neighbour_phenotype |-> keys[j][2],
             freq |-> FillNa0(Q(GroupSize(tbl, keys[j][1], keys[j][2]),
                                ObsTotalCellCount(data, keys[j][1])))]]

\* mask = normalization_factor < cond_counts_threshold
BelowThreshold(tbl, p, q, threshold) == NormalizationFactor(tbl, p, q) < threshold

\* n_freq under conditional normalization, with its index
ObservedConditional(data, tbl, threshold) ==
    LET keys == FreqKeys(data, tbl, "conditional")
    IN  [j \in DOMAIN keys |->
            [phenotype |-> keys[j][1], neighbour_phenotype |-> keys[j][2],
             freq |-> IF BelowThreshold(tbl, keys[j][1], keys[j][2], threshold)
                      THEN FillNa0(NaN)
                      ELSE FillNa0(Q(GroupSize(tbl, keys[j][1], keys[j][2]),
                                     NormalizationFactor(tbl, keys[j][1], keys[j][2])))]]

\* below_threshold: the entries of normalization_factor under the threshold
BelowCount(data, tbl, threshold) ==
    LET keys == FreqKeys(data, tbl, "conditional")
    IN  Cardinality({j \in DOMAIN keys : BelowThreshold(tbl, keys[j][1], keys[j][2], threshold)})

\* perc_below = below_threshold / total_pairs * 100
PercBelow(data, tbl, threshold) ==
    QMul(Q(BelowCount(data, tbl, threshold), Len(FreqKeys(data, tbl, "conditional"))),
         FromInt(100))

(* ------------------------------------------------------------------ *)
(* Scaling, mean and standard deviation (lines 336-352)                *)
(* ------------------------------------------------------------------ *)
\* row j of perm: the value of entry j in every trial
PermRow(scores, j) == [t \in DOMAIN scores |-> scores[t][j]]

\* 2 * (x - row_min) / (row_max - row_min) - 1
ScaleValue(x, row_min, row_max) ==
    QSub(QDiv(QMul(FromInt(2), QSub(x, row_min)), QSub(row_max, row_min)), One)

\* perm.apply(lambda row: ..., axis=1) on one row
ScaleRow(row) == [t \in DOMAIN row |-> ScaleValue(row[t], SeqMin(row), SeqMax(row))]

RECURSIVE DropNaN(_)
DropNaN(row) ==
    IF row = <<>> THEN <<>>
    ELSE IF IsNaN(Head(row)) THEN DropNaN(Tail(row))
    ELSE <<Head(row)>> \o DropNaN(Tail(row))

\* Series.mean(): over the values that are numbers, not-a-number when none is
RowMean(row) ==
    LET v == DropNaN(row)
    IN  IF v = <<>> THEN NaN ELSE QDiv(SeqSum(v), FromInt(Len(v)))

\* the square of Series.std() (ddof = 1): not-a-number with fewer than 2 values
RowVar(row) ==
    LET v == DropNaN(row)
        m == RowMean(row)
    IN  IF Len(v) < 2 THEN NaN
        ELSE QDiv(SeqSum([t \in DOMAIN v |-> QMul(QSub(v[t], m), QSub(v[t], m))]),
                  FromInt(Len(v) - 1))

\* a loop in which entry i is rescaled from the entry before it, the one the
\* previous iteration has already rescaled
RECURSIVE ScalingLoopShifted(_, _, _, _)
ScalingLoopShifted(nfreq, nfreq_scaled, scores, i) ==
    IF i > Len(nfreq_scaled) THEN nfreq
    ELSE LET row == PermRow(scores, i)
             src == IF i > 1 THEN i - 1 ELSE i
             upd == [nfreq_scaled EXCEPT
                        ![i].freq = ScaleValue(nfreq[src].freq, SeqMin(row), SeqMax(row))]
         IN  ScalingLoopShifted(upd, upd, scores, i + 1)

\* the loop of lines 345-349: entry i of n_freq_scaled is set from entry i of
\* n_freq, and from then on n_freq is the object n_freq_scaled
RECURSIVE ScalingLoop(_, _, _, _)
ScalingLoop(nfreq, nfreq_scaled, scores, i) ==
    IF i > Len(nfreq_scaled) THEN nfreq
    ELSE LET row == PermRow(scores, i)
             upd == [nfreq_scaled EXCEPT
                        ![i].freq = ScaleValue(nfreq[i].freq, SeqMin(row), SeqMax(row))]
         IN  ScalingLoop(upd, upd, scores, i + 1)

\* the rows whose mean and std are taken: perm_scaled or perm
StatRow(scores, j, scaling) ==
    IF scaling THEN ScaleRow(PermRow(scores, j)) ELSE PermRow(scores, j)

(* ------------------------------------------------------------------ *)
(* P-values, z-scores, direction (lines 354-367)                       *)
(* ------------------------------------------------------------------ *)
\* the trial values the observed value is compared with (line 357 reads perm)
AbsComparedRow(scores, j, scaling) == PermRow(scores, j)

\* np.sum(perm >= n_freq.values[:, None], axis=1) / (permutation + 1)
AbsPValue(scores, j, obs, scaling, permutation) ==
    LET row == AbsComparedRow(scores, j, scaling)
    IN  Q(Cardinality({t \in DOMAIN row : QGe(row[t], obs)}), permutation + 1)

\* z_scores[np.isnan(z_scores)] = 0
ZeroIfNaN(v) == IF IsNaN(v) THEN Zero ELSE v

\* (n_freq - mean) / std with std the root of var, kept as its sign and its
\* square; not-a-number becomes 0
ZScore(obs, mean, var) ==
    LET d  == QSub(obs, mean)
        sq == ZeroIfNaN(QDiv(QMul(d, d), var))
    IN  [sign |-> IF sq = Zero THEN 0 ELSE Sign(d[1]), sq |-> sq]

\* scipy.stats.norm.sf(abs(z)) * 2: 1 at z = 0, 0 at infinite z, and otherwise
\* kept as the square of z it is taken at
ZPValue(z) ==
    IF z.sq = Zero THEN [exact |-> TRUE, v |-> One]
    ELSE IF IsInf(z.sq) THEN [exact |-> TRUE, v |-> Zero]
    ELSE [exact |-> FALSE, v |-> z.sq]

\* ((n_freq - mean) / abs(n_freq - mean)).fillna(1)
Direction(obs, mean) ==
    LET d == QSub(obs, mean)
        r == QDiv(d, QAbs(d))
    IN  IF IsNaN(r) THEN One ELSE r

(* ------------------------------------------------------------------ *)
(* Result tables and their merge (lines 370-388 and 391-418)           *)
(* ------------------------------------------------------------------ *)
\* the value of a column in a row of the merged table that comes from an image
\* without that row
Absent == [absent |-> TRUE]

\* the per-image table for pval_method = 'abs': count and p_val per pair
AbsTable(nfreq, mean, pvals) ==
    [j \in DOMAIN nfreq |->
        [phenotype |-> nfreq[j].phenotype,
         neighbour_phenotype |-> nfreq[j].neighbour_phenotype,
         cols |-> [absent |-> FALSE,
                   count |-> QMul(nfreq[j].freq, Direction(nfreq[j].freq, mean[j])),
                   p_val |-> [exact |-> TRUE, v |-> pvals[j]],
                   z_score |-> [sign |-> 0, sq |-> Zero],
                   has_z |-> FALSE]]]

\* the per-image table for pval_method = 'zscore': z_score, p_val and count
ZscoreTable(nfreq, zs, pvals) ==
    [j \in DOMAIN nfreq |->
        [phenotype |-> nfreq[j].phenotype,
         neighbour_phenotype |-> nfreq[j].neighbour_phenotype,
         cols |-> [absent |-> FALSE,
                   count |-> nfreq[j].freq,
                   p_val |-> pvals[j],
                   z_score |-> zs[j],
                   has_z |-> TRUE]]]

KeyOf(row) == <<row.phenotype, row.neighbour_phenotype>>

KeysOf(table) == {KeyOf(table[j]) : j \in DOMAIN table}

\* the keys of an outer join in their sort order
RECURSIVE SortedKeys(_)
SortedKeys(K) ==
    IF K = {} THEN <<>>
    ELSE LET m == CHOOSE k \in K : \A l \in K :
                     \/ PhRank(k[1]) < PhRank(l[1])
                     \/ PhRank(k[1]) = PhRank(l[1]) /\ PhRank(k[2]) <= PhRank(l[2])
         IN  <<m>> \o SortedKeys(K \ {m})

JoinKeysInner(left, right) == KeysOf(left) \cap KeysOf(right)

\* which keys a merge of two tables keeps (how='outer')
JoinKeys(left, right) == KeysOf(left) \cup KeysOf(right)

\* pd.merge(left, right, on=['phenotype','neighbour_phenotype'], how='outer');
\* a merged row holds, per image, that image's columns
Merge(left, limages, right, rimages) ==
    LET keys == SortedKeys(JoinKeys(left, right))
    IN  [j \in DOMAIN keys |->
            [phenotype |-> keys[j][1], neighbour_phenotype |-> keys[j][2],
             cols |-> [image \in limages \cup rimages |->
                          IF image \in limages
                          THEN (IF keys[j] \in KeysOf(left)
                                THEN left[CHOOSE i \in DOMAIN left : KeyOf(left[i]) = keys[j]].cols[image]
                                ELSE Absent)
                          ELSE (IF keys[j] \in KeysOf(right)
                                THEN right[CHOOSE i \in DOMAIN right : KeyOf(right[i]) = keys[j]].cols[image]
                                ELSE Absent)]]]

\* a per-image table in the shape of a merged one: its columns under its image
Keyed(table, image) ==
    [j \in DOMAIN table |->
        [phenotype |-> table[j].phenotype,
         neighbour_phenotype |-> table[j].neighbour_phenotype,
         cols |-> [i \in {image} |-> table[j].cols]]]

\* reduce(lambda left, right: pd.merge(...), all_data) over the first m tables
RECURSIVE MergeAll(_, _, _)
MergeAll(tables, ids, m) ==
    IF m = 1 THEN Keyed(tables[1], ids[1])
    ELSE Merge(MergeAll(tables, ids, m - 1), {ids[i] : i \in 1..(m - 1)},
               Keyed(tables[m], ids[m]), {ids[m]})

(* ------------------------------------------------------------------ *)
(* State                                                               *)
(* ------------------------------------------------------------------ *)
VARIABLES
    cfg,            \* the options of the call
    adata,          \* the per-cell tables of the images, by position (imageid)
    adata_list,     \* the imageids to process, in order
    img,            \* position in adata_list of the image being processed
    pc,             \* the statement the call is at
    error,          \* the exception that ended the call, "" when none
    bound,          \* the local names that are assigned (ind, final_scores, ...)
    neighbours,     \* cell -> list of neighbour indices
    n,              \* the InteractionRow table
    rng,            \* process -> state of its numpy generator (0: the caller)
    seeds,          \* the per-trial seeds
    task,           \* worker -> the trial it holds and how far it is
    dispatched,     \* the number of trials handed to workers
    final_scores,   \* trial -> flattened frequencies (<<>> until collected)
    n_freq,         \* the observed frequencies with their index
    below,          \* below_threshold and perc_below of the conditional branch
    stats,          \* entry -> mean and squared std of its permutation row
    result,         \* the table spatial_interaction_internal returns
    all_data,       \* the tables of the images processed so far
    df_merged,      \* the merged table
    graphs_built,   \* how many neighbour graphs have been constructed
    trials_run      \* how many permutation trials have shuffled

locals == <<bound, neighbours, n, seeds, task, dispatched, final_scores, n_freq, below,
            stats, result>>

vars == <<cfg, adata, adata_list, img, pc, error, rng, all_data, df_merged,
          graphs_built, trials_run, locals>>

\* the master seed of line 239 and the seed range of line 242
MasterSeed == 42
SeedRange == 1000000

\* the smallest element of a set of integers
Least(S) == CHOOSE x \in S : \A y \in S : x <= y

Workers == 1..cfg.n_jobs

RngSlotShared(w) == 0

\* every process has its own generator: the caller is process 0, and with a
\* single job the trials run in the caller
RngSlot(w) == IF cfg.n_jobs = 1 THEN 0 ELSE w

Idle == [trial |-> 0, phase |-> "idle"]

NoLocals ==
    /\ bound = {}
    /\ neighbours = <<>>
    /\ n = <<>>
    /\ seeds = <<>>
    /\ task = <<>>
    /\ dispatched = 0
    /\ final_scores = <<>>
    /\ n_freq = <<>>
    /\ below = [count |-> 0, perc |-> Zero, warned |-> FALSE]
    /\ stats = <<>>
    /\ result = [kind |-> "none", table |-> <<>>]

ResetLocals ==
    /\ bound' = {}
    /\ neighbours' = <<>>
    /\ n' = <<>>
    /\ seeds' = <<>>
    /\ task' = <<>>
    /\ dispatched' = 0
    /\ final_scores' = <<>>
    /\ n_freq' = <<>>
    /\ below' = [count |-> 0, perc |-> Zero, warned |-> FALSE]
    /\ stats' = <<>>
    /\ result' = [kind |-> "none", table |-> <<>>]

\* the option records of a call
Configs(methods, knns, normalizations, thresholds, pvals, scalings, perms, jobs, subsets) ==
    [method : methods, radius : {3}, knn : knns, permutation : perms,
     cond_counts_threshold : thresholds, subset : subsets, pval_method : pvals,
     normalization : normalizations, verbose : {TRUE}, scaling : scalings, n_jobs : jobs]

InitWith(datasets, configs) ==
    /\ adata \in datasets
    /\ cfg \in configs
    /\ cfg.subset \in 0..Len(adata)
    \* an option the run does not read is not varied
    /\ cfg.method # "knn" => cfg.knn = Least({c.knn : c \in configs})
    /\ cfg.normalization # "conditional" =>
          cfg.cond_counts_threshold = Least({c.cond_counts_threshold : c \in configs})
    /\ adata_list = <<>>
    /\ img = 0
    /\ pc = "call"
    /\ error = ""
    /\ rng = [w \in 0..cfg.n_jobs |-> w]
    /\ all_data = <<>>
    /\ df_merged = <<>>
    /\ graphs_built = 0
    /\ trials_run = 0
    /\ NoLocals

data == adata[adata_list[img]]

Raise(e) ==
    /\ pc' = "raised"
    /\ error' = e

(* ------------------------------------------------------------------ *)
(* Actions                                                             *)
(* ------------------------------------------------------------------ *)
\* lines 391-395: the images to process (subset 0 stands for None)
SplitImages ==
    /\ pc = "call"
    /\ adata_list' = IF cfg.subset # 0 THEN <<cfg.subset>>
                     ELSE [i \in 1..Len(adata) |-> i]
    /\ img' = 1
    /\ pc' = "neighbours"
    /\ UNCHANGED <<cfg, adata, error, rng, all_data, df_merged, graphs_built, trials_run, locals>>

\* lines 148-212: the neighbour graph of the image, by the selected method;
\* a method that is none of the three leaves ind and neighbours unassigned
BuildNeighbours ==
    /\ pc = "neighbours"
    /\ \/ /\ cfg.method = "knn"
          /\ IF cfg.knn > Len(data)
             THEN /\ Raise("ValueError")
                  /\ UNCHANGED <<neighbours, bound, graphs_built>>
             ELSE /\ neighbours' \in KnnNeighbours(data, cfg.knn)
                  /\ bound' = bound \cup {"ind", "neighbours"}
                  /\ graphs_built' = graphs_built + 1
                  /\ pc' = "map"
                  /\ UNCHANGED error
       \/ /\ cfg.method = "radius"
          /\ neighbours' = RadiusNeighbours(data, cfg.radius)
          /\ bound' = bound \cup {"ind", "neighbours"}
          /\ graphs_built' = graphs_built + 1
          /\ pc' = "map"
          /\ UNCHANGED error
       \/ /\ cfg.method = "delaunay"
          /\ IF Triangulations(data) = {}
             THEN /\ Raise("QhullError")
                  /\ UNCHANGED <<neighbours, bound, graphs_built>>
             ELSE /\ \E simplices \in Triangulations(data) :
                        neighbours' = DelaunayNeighbours(data, simplices)
                  /\ bound' = bound \cup {"ind", "neighbours"}
                  /\ graphs_built' = graphs_built + 1
                  /\ pc' = "map"
                  /\ UNCHANGED error
       \/ /\ cfg.method \notin {"knn", "radius", "delaunay"}
          /\ pc' = "map"
          /\ UNCHANGED <<neighbours, bound, graphs_built, error>>
    /\ UNCHANGED <<cfg, adata, adata_list, img, rng, all_data, df_merged, trials_run,
                   n, seeds, task, dispatched, final_scores, n_freq, below, stats, result>>

\* lines 215-231: phenotypes mapped onto the neighbours, the table n; line 217
\* reads ind
MapPhenotypes ==
    /\ pc = "map"
    /\ IF "ind" \notin bound
       THEN /\ Raise("NameError: ind")
            /\ UNCHANGED n
       ELSE /\ n' = InteractionRows(data, neighbours)
            /\ pc' = "seed"
            /\ UNCHANGED error
    /\ UNCHANGED <<cfg, adata, adata_list, img, rng, all_data, df_merged, graphs_built,
                   trials_run, bound, neighbours, seeds, task, dispatched, final_scores,
                   n_freq, below, stats, result>>

\* lines 239-242: the caller's generator is seeded with the master seed and
\* the per-trial seeds are drawn from it
GenerateSeeds ==
    /\ pc = "seed"
    /\ seeds' = RandInts(RngSeed(MasterSeed), SeedRange, cfg.permutation)
    /\ rng' = [rng EXCEPT ![0] = RngAdvance(RngSeed(MasterSeed), cfg.permutation)]
    /\ pc' = "dispatch"
    /\ UNCHANGED <<cfg, adata, adata_list, img, error, all_data, df_merged, graphs_built,
                   trials_run, bound, neighbours, n, task, dispatched, final_scores,
                   n_freq, below, stats, result>>

\* lines 279-284: the trials are handed to the worker pool under the selected
\* normalization; any other value starts nothing and leaves final_scores
\* unassigned
StartParallel ==
    /\ pc = "dispatch"
    /\ IF cfg.normalization \in {"total", "conditional"}
       THEN /\ task' = [w \in Workers |-> Idle]
            /\ final_scores' = [t \in 1..cfg.permutation |-> <<>>]
            /\ pc' = "parallel"
       ELSE /\ pc' = "collect"
            /\ UNCHANGED <<task, final_scores>>
    /\ dispatched' = 0
    /\ UNCHANGED <<cfg, adata, adata_list, img, error, rng, all_data, df_merged,
                   graphs_built, trials_run, bound, neighbours, n, seeds, n_freq, below,
                   stats, result>>

\* delayed(...)(data=n, seed=seeds[i]): the next trial goes to an idle worker
Dispatch(w) ==
    /\ pc = "parallel"
    /\ task[w].phase = "idle"
    /\ dispatched < cfg.permutation
    /\ dispatched' = dispatched + 1
    /\ task' = [task EXCEPT ![w] = [trial |-> dispatched + 1, phase |-> "taken"]]
    /\ UNCHANGED <<cfg, adata, adata_list, img, pc, error, rng, all_data, df_merged,
                   graphs_built, trials_run, bound, neighbours, n, seeds, final_scores,
                   n_freq, below, stats, result>>

\* the seed a trial is given
TrialSeed(i) == seeds[i]

\* lines 247 / 262: np.random.seed(seed) in the worker's process
SeedTrial(w) ==
    /\ pc = "parallel"
    /\ task[w].phase = "taken"
    /\ rng' = [rng EXCEPT ![RngSlot(w)] = RngSeed(TrialSeed(task[w].trial))]
    /\ task' = [task EXCEPT ![w].phase = "seeded"]
    /\ UNCHANGED <<cfg, adata, adata_list, img, pc, error, all_data, df_merged,
                   graphs_built, trials_run, bound, neighbours, n, seeds, dispatched,
                   final_scores, n_freq, below, stats, result>>

\* the state a shuffle of size draws leaves the generator in
RngAfterShuffle(s, size) == RngAdvance(s, IF size > 1 THEN size - 1 ELSE 0)

\* lines 248-257 / 264-276: the shuffle under the process's generator and the
\* flattened frequencies of the trial, returned to the caller
ShuffleTrial(w) ==
    /\ pc = "parallel"
    /\ task[w].phase = "seeded"
    /\ final_scores' = [final_scores EXCEPT ![task[w].trial] =
                           IF cfg.normalization = "total"
                           THEN permutation_pval(data, n, rng[RngSlot(w)])
                           ELSE permutation_pval_norm(data, n, rng[RngSlot(w)])]
    /\ rng' = [rng EXCEPT ![RngSlot(w)] = RngAfterShuffle(rng[RngSlot(w)], Len(n))]
    /\ task' = [task EXCEPT ![w] = Idle]
    /\ trials_run' = trials_run + 1
    /\ UNCHANGED <<cfg, adata, adata_list, img, pc, error, all_data, df_merged,
                   graphs_built, bound, neighbours, n, seeds, dispatched, n_freq, below,
                   stats, result>>

\* Parallel(...) returns once every trial has returned
JoinParallel ==
    /\ pc = "parallel"
    /\ dispatched = cfg.permutation
    /\ \A w \in Workers : task[w].phase = "idle"
    /\ bound' = bound \cup {"final_scores"}
    /\ pc' = "collect"
    /\ UNCHANGED <<cfg, adata, adata_list, img, error, rng, all_data, df_merged,
                   graphs_built, trials_run, neighbours, n, seeds, task, dispatched,
                   final_scores, n_freq, below, stats, result>>

\* line 287 reads final_scores; lines 296-334: the observed frequencies
Observe ==
    /\ pc = "collect"
    /\ IF "final_scores" \notin bound
       THEN /\ Raise("NameError: final_scores")
            /\ UNCHANGED <<n_freq, below>>
       ELSE /\ n_freq' = IF cfg.normalization = "total"
                         THEN ObservedTotal(data, n)
                         ELSE ObservedConditional(data, n, cfg.cond_counts_threshold)
            /\ below' = IF cfg.normalization = "total" THEN below
                        ELSE [count  |-> BelowCount(data, n, cfg.cond_counts_threshold),
                              perc   |-> PercBelow(data, n, cfg.cond_counts_threshold),
                              warned |-> /\ QLt(Zero, PercBelow(data, n, cfg.cond_counts_threshold))
                                         /\ cfg.verbose]
            /\ pc' = "scale"
            /\ UNCHANGED error
    /\ UNCHANGED <<cfg, adata, adata_list, img, rng, all_data, df_merged, graphs_built,
                   trials_run, bound, neighbours, n, seeds, task, dispatched, final_scores,
                   stats, result>>

\* lines 336-352: mean and std of the (scaled) permutation rows, and with
\* scaling the rescaled n_freq
Scale ==
    /\ pc = "scale"
    /\ stats' = [j \in DOMAIN n_freq |->
                    [mean |-> RowMean(StatRow(final_scores, j, cfg.scaling)),
                     var  |-> RowVar(StatRow(final_scores, j, cfg.scaling))]]
    /\ n_freq' = IF cfg.scaling THEN ScalingLoop(n_freq, n_freq, final_scores, 1)
                 ELSE n_freq
    /\ pc' = "pvalue"
    /\ UNCHANGED <<cfg, adata, adata_list, img, error, rng, all_data, df_merged,
                   graphs_built, trials_run, bound, neighbours, n, seeds, task, dispatched,
                   final_scores, below, result>>

\* lines 354-388: p-values (and z-scores), direction and the table returned;
\* a pval_method that is neither leaves the name neighbours as it was, the
\* phenotype-mapped neighbour frame, and that is what is returned
Evaluate ==
    /\ pc = "pvalue"
    /\ result' =
          IF cfg.pval_method = "abs"
          THEN [kind |-> "pairs",
                table |-> AbsTable(n_freq, [j \in DOMAIN n_freq |-> stats[j].mean],
                             [j \in DOMAIN n_freq |->
                                 AbsPValue(final_scores, j, n_freq[j].freq, cfg.scaling,
                                           cfg.permutation)])]
          ELSE IF cfg.pval_method = "zscore"
          THEN LET zs == [j \in DOMAIN n_freq |->
                             ZScore(n_freq[j].freq, stats[j].mean, stats[j].var)]
               IN  [kind |-> "pairs",
                    table |-> ZscoreTable(n_freq, zs, [j \in DOMAIN n_freq |-> ZPValue(zs[j])])]
          ELSE [kind |-> "neighbours", table |-> MappedNeighbours(data, neighbours)]
    /\ pc' = "return"
    /\ UNCHANGED <<cfg, adata, adata_list, img, error, rng, all_data, df_merged,
                   graphs_built, trials_run, bound, neighbours, n, seeds, task, dispatched,
                   final_scores, n_freq, below, stats>>

\* line 415: the table of the image joins all_data and the next image starts
\* with fresh locals
ReturnImage ==
    /\ pc = "return"
    /\ all_data' = Append(all_data, result)
    /\ IF img < Len(adata_list)
       THEN /\ img' = img + 1
            /\ pc' = "neighbours"
       ELSE /\ pc' = "merge"
            /\ UNCHANGED img
    /\ ResetLocals
    /\ UNCHANGED <<cfg, adata, adata_list, error, rng, df_merged, graphs_built, trials_run>>

\* line 418: the tables are merged pairwise on the pair columns; a table
\* without those columns makes the merge fail, a single table is not merged
MergeImages ==
    /\ pc = "merge"
    /\ IF Len(all_data) > 1 /\ \E i \in DOMAIN all_data : all_data[i].kind # "pairs"
       THEN /\ Raise("KeyError")
            /\ UNCHANGED df_merged
       ELSE /\ df_merged' =
                  IF all_data[1].kind = "pairs"
                  THEN [kind |-> "pairs",
                        table |-> MergeAll([i \in DOMAIN all_data |-> all_data[i].table],
                                           adata_list, Len(all_data))]
                  ELSE all_data[1]
            /\ pc' = "returned"
            /\ UNCHANGED error
    /\ UNCHANGED <<cfg, adata, adata_list, img, rng, all_data, graphs_built, trials_run,
                   locals>>

Next ==
    \/ SplitImages
    \/ BuildNeighbours
    \/ MapPhenotypes
    \/ GenerateSeeds
    \/ StartParallel
    \/ \E w \in Workers : Dispatch(w)
    \/ \E w \in Workers : SeedTrial(w)
    \/ \E w \in Workers : ShuffleTrial(w)
    \/ JoinParallel
    \/ Observe
    \/ Scale
    \/ Evaluate
    \/ ReturnImage
    \/ MergeImages

(* ------------------------------------------------------------------ *)
(* Specifications                                                      *)
(* ------------------------------------------------------------------ *)
\* one image of any of the layouts, a single job
Init ==
    InitWith({<<t>> : t \in ImageTables},
             Configs(Methods, {2, 3}, Normalizations, {2, 5}, PvalMethods, BOOLEAN,
                     1..MaxPermutation, {1}, {0}))

Spec == Init /\ [][Next]_vars

\* the sequences of 1..m elements of S
RECURSIVE SeqsUpTo(_, _)
SeqsUpTo(S, m) ==
    IF m = 0 THEN {}
    ELSE {<<x>> : x \in S} \cup {Append(q, x) : q \in SeqsUpTo(S, m - 1), x \in S}

\* one image of the grid, up to MaxWorkers worker processes
InitPar ==
    InitWith({<<t>> : t \in TablesOf(GridLayout)},
             Configs({"radius", "voronoi"}, {2}, Normalizations,
                     {5}, PvalMethods, {FALSE}, 1..MaxPermutation,
                     1..MaxWorkers, {0}))

SpecPar == InitPar /\ [][Next]_vars

\* up to MaxImages images, all of them or the one named by subset
InitMerge ==
    InitWith(SeqsUpTo(TablesOf(DupLayout), MaxImages),
             Configs({"radius", "delaunay", "voronoi"}, {2}, Normalizations,
                     {2}, PvalMethods, {FALSE}, {2}, {1}, 0..MaxImages))

SpecMerge == InitMerge /\ [][Next]_vars

(* ------------------------------------------------------------------ *)
(* Claims                                                              *)
(* ------------------------------------------------------------------ *)
ValidOptions ==
    /\ cfg.method \in {"knn", "radius", "delaunay"}
    /\ cfg.normalization \in {"total", "conditional"}
    /\ cfg.pval_method \in {"abs", "zscore"}

\* C1: a call with an unsupported method, normalization or pval_method fails
\* before any neighbour graph is constructed and before any permutation trial
\* has run, and never returns a table.
C1_FailsBeforeAnyWork ==
    ~ValidOptions => graphs_built = 0 /\ trials_run = 0 /\ pc # "returned"

\* what a sequential run of the trials under the seeds of master seed 42 gives
C2_ExpectedSeeds == RandInts(RngSeed(MasterSeed), SeedRange, cfg.permutation)

C2_ExpectedScores ==
    [t \in 1..cfg.permutation |->
        IF cfg.normalization = "total"
        THEN permutation_pval(data, n, RngSeed(C2_ExpectedSeeds[t]))
        ELSE permutation_pval_norm(data, n, RngSeed(C2_ExpectedSeeds[t]))]

C2_ExpectedStats ==
    [j \in DOMAIN n_freq |->
        [mean |-> RowMean(StatRow(C2_ExpectedScores, j, cfg.scaling)),
         var  |-> RowVar(StatRow(C2_ExpectedScores, j, cfg.scaling))]]

\* C2: trial i shuffles under seeds[i], the seeds being drawn once from the
\* master seed 42, and the vector collected for trial i is the same whichever
\* worker ran it and however the workers' steps interleave; the table returned
\* for the image is therefore a function of the input alone (the p-values
\* and z-scores are those of a sequential run).
C2_Reproducible ==
    /\ pc \in {"dispatch", "parallel"} => seeds = C2_ExpectedSeeds
    /\ pc = "parallel" =>
          /\ \A w \in Workers : task[w].phase = "seeded" =>
                rng[RngSlot(w)] = RngSeed(C2_ExpectedSeeds[task[w].trial])
          /\ \A t \in 1..cfg.permutation :
                final_scores[t] # <<>> => final_scores[t] = C2_ExpectedScores[t]
    /\ pc = "collect" /\ "final_scores" \in bound => final_scores = C2_ExpectedScores
    /\ pc = "pvalue" => stats = C2_ExpectedStats
    /\ pc = "return" /\ cfg.pval_method = "abs" =>
          \A j \in DOMAIN n_freq :
             result.table[j].cols.p_val.v =
                 AbsPValue(C2_ExpectedScores, j, n_freq[j].freq, cfg.scaling, cfg.permutation)
    /\ pc = "return" /\ cfg.pval_method = "zscore" =>
          \A j \in DOMAIN n_freq :
             /\ result.table[j].cols.z_score =
                   ZScore(n_freq[j].freq, C2_ExpectedStats[j].mean, C2_ExpectedStats[j].var)
             /\ result.table[j].cols.p_val = ZPValue(result.table[j].cols.z_score)

\* two workers hold trials at once, the later trial already seeded, and the
\* earlier trial has returned a vector that differs from the later trial's
C2_Witness ==
    /\ pc = "parallel"
    /\ cfg.n_jobs > 1
    /\ \E w \in Workers : task[w].phase = "seeded" /\ task[w].trial = 2
    /\ final_scores[1] # <<>>
    /\ final_scores[1] # C2_ExpectedScores[2]

\* the phenotypes present in the image being processed
C3_P == {data[i].phenotype : i \in DOMAIN data}

\* C3: under both normalizations the observed frequency matrix and the matrix
\* of every permutation trial have a row and a column for every phenotype of
\* the image, so that each flattened vector has |P| x |P| entries.
C3_SquareOverAllPhenotypes ==
    /\ pc = "parallel" =>
          \A t \in 1..cfg.permutation :
             final_scores[t] # <<>> =>
                 Len(final_scores[t]) = Cardinality(C3_P) * Cardinality(C3_P)
    /\ pc = "scale" =>
          /\ Len(n_freq) = Cardinality(C3_P) * Cardinality(C3_P)
          /\ {<<n_freq[j].phenotype, n_freq[j].neighbour_phenotype>> : j \in DOMAIN n_freq}
                = C3_P \X C3_P

\* the scenario of C4: the 2x2 grid labelled A, A, B, B, the radius method
\* with radius 1.5 (3 in half units), total normalization, n_freq just computed
C4_Scenario ==
    /\ pc = "scale"
    /\ cfg.method = "radius" /\ cfg.radius = 3 /\ cfg.normalization = "total"
    /\ [i \in DOMAIN data |-> <<data[i].x, data[i].y>>] = GridLayout
    /\ [i \in DOMAIN data |-> data[i].phenotype] = <<"A", "A", "B", "B">>

C4_AllConnected ==
    \A i \in DOMAIN data : Range(neighbours[i]) = (DOMAIN data) \ {i}

C4_Freq(p, q) ==
    n_freq[CHOOSE j \in DOMAIN n_freq :
              n_freq[j].phenotype = p /\ n_freq[j].neighbour_phenotype = q].freq

\* C4 as stated: in the scenario every cell neighbours every other cell and
\* frequency(A->B) = 1.0, frequency(A->A) = 1.0.
C4_AsStated ==
    C4_Scenario =>
        /\ C4_AllConnected
        /\ C4_Freq("A", "B") = One
        /\ C4_Freq("A", "A") = One

\* C4 amended: in the scenario every cell neighbours every other cell and
\* frequency(A->B) = 4 edges / 2 A-cells = 2.0, frequency(A->A) = 2 / 2 = 1.0.
C4_Amended ==
    C4_Scenario =>
        /\ C4_AllConnected
        /\ C4_Freq("A", "B") = FromInt(2)
        /\ C4_Freq("A", "A") = One

C4_Witness == C4_Scenario /\ Len(n_freq) = 4

\* C5: under total normalization every trial divides row i of its counts by
\* the number of cells of phenotype i in the image, the denominator of the
\* observed frequencies, also when cells of phenotype i have no neighbour.
C5_TrialDenominatorIsCellCount ==
    pc = "parallel" /\ cfg.normalization = "total" =>
        \A t \in 1..cfg.permutation :
           final_scores[t] # <<>> =>
               LET sh   == ShuffledTable(n, RngSeed(seeds[t]))
                   keys == FreqKeys(data, sh, "total")
               IN  \A j \in DOMAIN keys :
                      final_scores[t][j] =
                          FillNa0(Q(GroupSize(sh, keys[j][1], keys[j][2]),
                                    ObsTotalCellCount(data, keys[j][1])))

\* C6: with pval_method = abs the p-value of a pair is the number of trials
\* whose value is >= the observed value, over permutation + 1; with scaling
\* both sides are the scaled values (stated for the pairs whose trial values
\* are not all equal, where the scaled values are numbers).
C6_AbsPValueComparesLikeWithLike ==
    pc = "return" /\ cfg.pval_method = "abs" =>
        \A j \in DOMAIN n_freq :
           LET row == StatRow(final_scores, j, cfg.scaling)
           IN  SeqMin(PermRow(final_scores, j)) # SeqMax(PermRow(final_scores, j)) =>
                   result.table[j].cols.p_val.v =
                       Q(Cardinality({t \in DOMAIN row : QGe(row[t], n_freq[j].freq)}),
                         cfg.permutation + 1)

\* C7: with pval_method = zscore a pair whose null distribution has standard
\* deviation 0 has z-score 0, and no z-score or p-value of the table is
\* not-a-number or infinite.
C7_ZeroStdGivesZeroZ ==
    pc = "return" /\ cfg.pval_method = "zscore" =>
        \A j \in DOMAIN n_freq :
           /\ stats[j].var = Zero =>
                 result.table[j].cols.z_score = [sign |-> 0, sq |-> Zero]
           /\ IsFinite(result.table[j].cols.z_score.sq)
           /\ IsFinite(result.table[j].cols.p_val.v)

\* C8: under conditional normalization every pair of phenotypes of the image
\* whose raw pair count is below cond_counts_threshold has observed frequency
\* 0 and is among the entries counted for the below-threshold percentage.
C8_LowSupportPairsAreZero ==
    pc = "scale" /\ cfg.normalization = "conditional" =>
        \A p \in C3_P, q \in C3_P :
           GroupSize(n, p, q) < cfg.cond_counts_threshold =>
               /\ \E j \in DOMAIN n_freq :
                     /\ n_freq[j].phenotype = p /\ n_freq[j].neighbour_phenotype = q
                     /\ n_freq[j].freq = Zero
               /\ <<p, q>> \in Range(FreqKeys(data, n, "conditional"))

\* C10: with the knn method every cell's neighbour list has knn - 1 entries
\* and does not contain the cell's own index, cells with identical
\* coordinates included.
C10_KnnExcludesSelf ==
    pc = "map" /\ cfg.method = "knn" /\ "ind" \in bound =>
        \A i \in DOMAIN data :
           /\ Len(neighbours[i]) = cfg.knn - 1
           /\ i \notin Range(neighbours[i])

\* the keys of the per-image tables that were merged
C9_ImageKeys(i) == KeysOf(all_data[i].table)

\* C9: the merged table has exactly one row for every pair that occurs in the
\* table of at least one processed image, and for an image without the pair
\* the image's columns are absent (not 0); an image with the pair keeps its
\* own columns.
C9_MergeIsUnion ==
    pc = "returned" /\ df_merged.kind = "pairs" =>
        LET m == df_merged.table
        IN  /\ KeysOf(m) = UNION {C9_ImageKeys(i) : i \in DOMAIN all_data}
            /\ Cardinality(KeysOf(m)) = Len(m)
            /\ \A j \in DOMAIN m : \A i \in DOMAIN all_data :
                  IF KeyOf(m[j]) \in C9_ImageKeys(i)
                  THEN \E r \in DOMAIN all_data[i].table :
                          /\ KeyOf(all_data[i].table[r]) = KeyOf(m[j])
                          /\ m[j].cols[adata_list[i]] = all_data[i].table[r].cols
                  ELSE m[j].cols[adata_list[i]].absent

\* two images were merged and a pair of one of them does not occur in the other
C9_Witness ==
    /\ pc = "returned" /\ df_merged.kind = "pairs"
    /\ Len(all_data) = 2
    /\ \E j \in DOMAIN df_merged.table :
          /\ df_merged.table[j].cols[adata_list[1]].absent
          /\ ~df_merged.table[j].cols[adata_list[2]].absent

\* C11: under conditional normalization every trial divides its shuffled pair
\* counts by the deduplicated pair counts of the unshuffled table, the
\* denominators of the observed frequencies, the same in every trial.
C11_TrialDenominatorIsObserved ==
    pc = "parallel" /\ cfg.normalization = "conditional" =>
        \A t \in 1..cfg.permutation :
           final_scores[t] # <<>> =>
               LET sh   == ShuffledTable(n, RngSeed(seeds[t]))
                   keys == FreqKeys(data, sh, "conditional")
               IN  \A j \in DOMAIN keys :
                      final_scores[t][j] =
                          FillNa0(Q(GroupSize(sh, keys[j][1], keys[j][2]),
                                    NormalizationFactor(n, keys[j][1], keys[j][2])))

\* the observed frequencies before the rescaling loop
C12_Original ==
    IF cfg.normalization = "total" THEN ObservedTotal(data, n)
    ELSE ObservedConditional(data, n, cfg.cond_counts_threshold)

\* C12: with scaling, after the loop the observed value of every pair p is
\* 2 * (obs_p - min_p) / (max_p - min_p) - 1 with obs_p the original observed
\* frequency of p and min_p, max_p the minimum and maximum of the unscaled
\* permutation row of the same pair p; no entry depends on the rescaling of
\* an earlier one.
C12_RescaledOnceFromOriginal ==
    pc = "pvalue" /\ cfg.scaling =>
        /\ Len(n_freq) = Len(C12_Original)
        /\ \A j \in DOMAIN n_freq :
              /\ n_freq[j].phenotype = C12_Original[j].phenotype
              /\ n_freq[j].neighbour_phenotype = C12_Original[j].neighbour_phenotype
              /\ \A t \in 1..cfg.permutation :
                    FreqKeys(data, ShuffledTable(n, RngSeed(seeds[t])), cfg.normalization)[j]
                        = <<n_freq[j].phenotype, n_freq[j].neighbour_phenotype>>
              /\ n_freq[j].freq =
                    ScaleValue(C12_Original[j].freq,
                               SeqMin(PermRow(final_scores, j)),
                               SeqMax(PermRow(final_scores, j)))

\* the loop has run over at least two pairs whose permutation rows are not
\* constant, and it changed the value of the later one
C12_Witness ==
    /\ pc = "pvalue" /\ cfg.scaling
    /\ \E i \in DOMAIN n_freq : \E j \in DOMAIN n_freq :
          /\ i < j
          /\ SeqMin(PermRow(final_scores, i)) # SeqMax(PermRow(final_scores, i))
          /\ SeqMin(PermRow(final_scores, j)) # SeqMax(PermRow(final_scores, j))
          /\ n_freq[i].freq # C12_Original[i].freq
          /\ n_freq[j].freq # C12_Original[j].freq
          /\ C12_Original[i].freq # C12_Original[j].freq

====
